---- MODULE Spec2Model ----
(***************************************************************************)
(* Flight-trip search of python-weekend-solution: csvreader.py feeds rows  *)
(* to FlightGraph (flighthandler.py), whose find_trips / explore /         *)
(* find_trips_reverse enumerate trips under a layover rule.                *)
(*                                                                         *)
(* Representation.                                                         *)
(*  - a date-time string "%Y-%m-%dT%H:%M:%S" is the tuple                  *)
(*    <<day, hour, minute>>; strptime turns it into minutes;               *)
(*  - a numeric CSV cell is the record [whole, point, tenths]: the text    *)
(*    "12" is [12, FALSE, 0], the text "12.5" is [12, TRUE, 5];            *)
(*    int() accepts only texts without a point, float() gives tenths;      *)
(*  - a float is a fixed-point number of tenths;                           *)
(*  - an Optional value is a sequence of length 0 (None) or 1;             *)
(*  - a dict is a function whose DOMAIN is the set of its keys.            *)
(***************************************************************************)
EXTENDS Integers, Sequences, FiniteSets, TLC

VARIABLES
    csv_file,        \* the rows of the CSV file (input)
    line_num,        \* rows consumed by FlightCSVReader.read
    row_filters,     \* FlightCSVReader.row_filters
    graph,           \* FlightGraph.graph: airport -> list of Flight
    layover_rule,    \* FlightGraph.layover_rule (Optional)
    pc,              \* position of the program
    raised,          \* the exception that ended the run, "" when none
    query,           \* arguments of the public call in progress
    call,            \* arguments of the find_trips invocation in progress
    flight_idx,      \* find_trips: position of `for flight in ...`
    stack,           \* explore: the recursion, one frame per invocation
    visited_airport, \* explore: set of visited airports
    current_trip,    \* explore: the trip in progress
    trips,           \* find_trips: the trips found so far
    out_trips,       \* find_trips_reverse: `trips`, the outbound trips
    trip_idx,        \* find_trips_reverse: position of `for trip in trips`
    all_trips,       \* find_trips_reverse: `all_trips`
    result,          \* the list returned by the public call
    returned,        \* history: every find_trips invocation that returned
    arg_prev_flight, \* DefaultLayoverRule.validate: first argument
    arg_next_flight, \* DefaultLayoverRule.validate: second argument
    valid,           \* DefaultLayoverRule.validate: the value returned
    records,         \* the flight data a trip is built from (input)
    bags_count,      \* FlightTrip.bags_count
    flights,         \* FlightTrip.flights
    acc,             \* FlightTrip.__post_init__: its local variables
    flight_trip,     \* the FlightTrip built
    paths,           \* FlightTripDataGenerator.add_trips: its argument
    self_trips,      \* FlightTripDataGenerator.trips
    self_bags,       \* FlightTripDataGenerator.bags
    path_exists,     \* FlightCSVReader.__init__: Path(path).exists()
    fieldnames,      \* csv.DictReader.fieldnames: the header of the file
    exit_code,       \* main: the exit status, <<>> while running
    stdout           \* main: what was printed as the result

vars == <<csv_file, line_num, row_filters, graph, layover_rule, pc, raised,
          query, call, flight_idx, stack, visited_airport, current_trip,
          trips, out_trips, trip_idx, all_trips, result, returned,
          arg_prev_flight, arg_next_flight, valid,
          records, bags_count, flights, acc, flight_trip,
          paths, self_trips, self_bags,
          path_exists, fieldnames, exit_code, stdout>>

readerVars == <<csv_file, line_num, row_filters>>
exploreVars == <<stack, visited_airport, current_trip>>
reverseVars == <<out_trips, trip_idx, all_trips>>
layoverVars == <<arg_prev_flight, arg_next_flight, valid>>
tripVars == <<records, bags_count, flights, acc, flight_trip>>
genVars == <<paths, self_trips, self_bags>>
mainVars == <<path_exists, fieldnames, exit_code, stdout>>
\* the variables the search does not touch
unitVars == <<layoverVars, tripVars, genVars, mainVars>>

-----------------------------------------------------------------------------
(* Bounds of the model *)

\* rows in the CSV file
MaxRows == 4

\* largest requested bag count
MaxBags == 1

\* largest layover bound, in hours, of the rules validate is tried on
MaxLayover == 2

\* legs of the trips a FlightTrip is built from
MaxLegs == 2

\* trips handed to a FlightTripDataGenerator
MaxPaths == 3

-----------------------------------------------------------------------------
(* Values *)

Airports == {"A", "B", "C", "D"}

\* the text of a whole number, and of a number with one decimal
Whole(n) == [kind |-> "str", whole |-> n, point |-> FALSE, tenths |-> 0]
Decimal(n, t) == [kind |-> "str", whole |-> n, point |-> TRUE, tenths |-> t]
\* a text that is not a number
NotANumber == [kind |-> "text", whole |-> 0, point |-> FALSE, tenths |-> 0]
\* a float given as a number, not as text
Number(n, t) == [kind |-> "float", whole |-> n, point |-> TRUE, tenths |-> t]

Row(no, o, d, dep, arr, base, bag, allowed) ==
    [flight_no |-> no, origin |-> o, destination |-> d,
     departure |-> dep, arrival |-> arr,
     base_price |-> base, bag_price |-> bag, bags_allowed |-> allowed]

\* The timetable the CSV files are cut from: a file is a sub-list of it.
Schedule ==
    << Row("S0", "A", "A", <<1, 6, 0>>,  <<1, 7, 0>>,  Decimal(20, 0), Whole(5), Whole(2)),
       Row("F1", "A", "B", <<1, 8, 0>>,  <<1, 10, 0>>, Decimal(30, 0), Whole(9), Whole(2)),
       Row("F2", "B", "C", <<1, 11, 0>>, <<1, 12, 0>>, Decimal(25, 5), Whole(9), Whole(1)),
       Row("F3", "B", "C", <<1, 17, 0>>, <<1, 18, 0>>, Decimal(40, 0), Whole(7), Whole(2)),
       Row("F4", "C", "D", <<1, 19, 0>>, <<1, 20, 0>>, Decimal(35, 0), Whole(9), Whole(1)),
       Row("F5", "B", "D", <<1, 16, 0>>, <<1, 17, 0>>, Decimal(50, 0), Whole(9), Whole(0)),
       Row("F6", "D", "A", <<1, 17, 0>>, <<1, 18, 0>>, Decimal(45, 0), Whole(9), Whole(1)),
       Row("F7", "D", "A", <<2, 0, 0>>,  <<2, 1, 0>>,  Decimal(60, 0), Whole(9), Whole(2)),
       Row("F8", "C", "A", <<1, 7, 0>>,  <<1, 9, 0>>,  Decimal(15, 0), Whole(9), Whole(1)),
       Row("F9", "A", "D", <<1, 19, 0>>, <<1, 21, 0>>, Decimal(90, 0), Whole(9), Whole(2)) >>

\* the layover rules a caller installs: the command line's defaults
LayoverRules == {[min_layover |-> 1, max_layover |-> 6]}

\* the start dates of the queries
StartDates == {<<1, 0, 0>>, <<1, 8, 0>>, <<1, 11, 0>>}

\* the origin/destination pairs of the queries
QueryPairs == Airports \X Airports

-----------------------------------------------------------------------------
(* Helpers on sequences *)

Last(s) == s[Len(s)]
Front(s) == SubSeq(s, 1, Len(s) - 1)
Range(s) == {s[i] : i \in 1..Len(s)}
Min(S) == CHOOSE x \in S : \A y \in S : x <= y

RECURSIVE Sorted(_)
Sorted(S) == IF S = {} THEN <<>> ELSE <<Min(S)>> \o Sorted(S \ {Min(S)})

\* every sub-list of Schedule of at most MaxRows rows
Files ==
    { [i \in 1..Cardinality(S) |-> Schedule[Sorted(S)[i]]] :
        S \in {T \in SUBSET (1..Len(Schedule)) : Cardinality(T) <= MaxRows} }

-----------------------------------------------------------------------------
(* csvreader.py and Flight *)

\* datetime.strptime(text, DATE_TIME_PATTERN), in minutes
Strptime(text) == (text[1] * 24 + text[2]) * 60 + text[3]

\* int(value): the text of a number with a point raises ValueError, a float
\* is truncated
int_ok(value) == value.kind = "float" \/ (value.kind = "str" /\ ~value.point)
\* float(value): a text that is not a number raises ValueError
float_ok(value) == value.kind # "text"
py_int(value) == value.whole

\* float(value), in tenths
py_float(value) == value.whole * 10 + value.tenths

\* check_string, check_date, check_float, check_number
check_string(value) == value # ""
check_date(value) == value[1] >= 1 /\ value[2] \in 0..23 /\ value[3] \in 0..59
check_float(value) == float_ok(value) /\ py_float(value) >= 0
check_number(value) == int_ok(value) /\ py_int(value) >= 0

\* FlightRowValidator.validate_row: FALSE when CSVWrongValueException is raised
validate_row(row) ==
    /\ check_string(row.flight_no)
    /\ check_string(row.origin)
    /\ check_string(row.destination)
    /\ check_date(row.departure)
    /\ check_date(row.arrival)
    /\ check_float(row.base_price)
    /\ check_float(row.bag_price)
    /\ check_number(row.bags_allowed)

BagRowFilter(bags) == [kind |-> "bags", bags |-> bags]

\* BagRowFilter.filter_row
BagFilterRow(f, row) == py_int(row.bags_allowed) >= f.bags

StartDateFilter(start_date) == [kind |-> "start_date", start_date |-> start_date]

\* StartDateFilter.filter_row
StartDateFilterRow(f, row) == Strptime(row.departure) >= f.start_date

\* row_filter.filter_row(row), by the class of the filter
RowFilterRow(f, row) ==
    IF f.kind = "bags" THEN BagFilterRow(f, row) ELSE StartDateFilterRow(f, row)

RECURSIVE filter_row(_, _)
\* FlightCSVReader.filter_row: valid &= row_filter.filter_row(row)
filter_row(filters, row) ==
    IF filters = <<>> THEN TRUE
    ELSE RowFilterRow(filters[1], row) /\ filter_row(Tail(filters), row)

\* Flight(**row) and Flight.__post_init__
NewFlight(row) ==
    [flight_no |-> row.flight_no, origin |-> row.origin,
     destination |-> row.destination,
     departure |-> row.departure, arrival |-> row.arrival,
     base_price |-> py_float(row.base_price),
     bag_price |-> py_int(row.bag_price),
     bags_allowed |-> py_int(row.bags_allowed)]

FlightOk(row) == int_ok(row.bag_price) /\ int_ok(row.bags_allowed)

get_departure_time(flight) == Strptime(flight.departure)
get_arrival_time(flight) == Strptime(flight.arrival)

-----------------------------------------------------------------------------
(* Layover rule *)

\* timedelta(hours = h), in minutes
timedelta_hours(h) == h * 60

\* validate with the lower bound exclusive
validate_exclusive(rule, prev_flight, next_flight) ==
    LET diff == get_departure_time(next_flight) - get_arrival_time(prev_flight)
    IN  timedelta_hours(rule.min_layover) < diff
        /\ diff <= timedelta_hours(rule.max_layover)

\* DefaultLayoverRule.validate
validate(rule, prev_flight, next_flight) ==
    LET min_hour_time == timedelta_hours(rule.min_layover)
        max_hour_time == timedelta_hours(rule.max_layover)
        diff == get_departure_time(next_flight) - get_arrival_time(prev_flight)
    IN  min_hour_time <= diff /\ diff <= max_hour_time

\* is_valid_layover without the rule: every pair is accepted
is_valid_layover_unchecked(prev_flight, next_flight) == TRUE

\* FlightGraph.is_valid_layover
is_valid_layover(prev_flight, next_flight) ==
    IF layover_rule # <<>>
    THEN validate(layover_rule[1], prev_flight, next_flight)
    ELSE TRUE

-----------------------------------------------------------------------------
(* The program *)

NoQuery == [origin |-> "", destination |-> "", start_date |-> 0, reverse |-> FALSE]
NoCall == [origin |-> "", destination |-> "", start_date |-> 0, mode |-> ""]

\* no pair of flights is being validated
LayoverIdle ==
    /\ arg_prev_flight = <<>>
    /\ arg_next_flight = <<>>
    /\ valid = FALSE

\* no trip is being built
TripIdle ==
    /\ records = <<>>
    /\ bags_count = 0
    /\ flights = <<>>
    /\ acc = <<>>
    /\ flight_trip = <<>>

\* no list of trips is being converted
GenIdle ==
    /\ paths = <<>>
    /\ self_trips = <<>>
    /\ self_bags = 0

\* CSV_FIELDS
CSV_FIELDS == <<"flight_no", "origin", "destination", "departure", "arrival",
                "base_price", "bag_price", "bags_allowed">>

\* the program is not run from main: the file is there and its header is right
MainIdle ==
    /\ path_exists = TRUE
    /\ fieldnames = CSV_FIELDS
    /\ exit_code = <<>>
    /\ stdout = <<>>

\* no file is being read and no search is running
SearchIdle ==
    /\ csv_file = <<>>
    /\ line_num = 0
    /\ row_filters = <<>>
    /\ graph = [a \in {} |-> <<>>]
    /\ raised = ""
    /\ query = NoQuery
    /\ call = NoCall
    /\ flight_idx = 0
    /\ stack = <<>>
    /\ visited_airport = {}
    /\ current_trip = <<>>
    /\ trips = <<>>
    /\ out_trips = <<>>
    /\ trip_idx = 0
    /\ all_trips = <<>>
    /\ result = <<>>
    /\ returned = <<>>

Init ==
    /\ csv_file \in Files
    /\ line_num = 0
    /\ row_filters \in {<<BagRowFilter(b)>> : b \in 0..MaxBags}
    /\ graph = [a \in {} |-> <<>>]
    /\ layover_rule = <<>>
    /\ pc = "create_graph"
    /\ raised = ""
    /\ query = NoQuery
    /\ call = NoCall
    /\ flight_idx = 0
    /\ stack = <<>>
    /\ visited_airport = {}
    /\ current_trip = <<>>
    /\ trips = <<>>
    /\ out_trips = <<>>
    /\ trip_idx = 0
    /\ all_trips = <<>>
    /\ result = <<>>
    /\ returned = <<>>
    /\ LayoverIdle
    /\ TripIdle
    /\ GenIdle
    /\ MainIdle

searchVars == <<query, call, flight_idx, stack, visited_airport, current_trip,
                trips, out_trips, trip_idx, all_trips, result, returned>>

\* dict.get(key, [])
GraphGet(a) == IF a \in DOMAIN graph THEN graph[a] ELSE <<>>

\* create_graph: one iteration of `for flight_data in flights`, the row
\* coming from FlightCSVReader.read, which validates it and then yields it
\* unless a filter rejects it
ReadRow ==
    /\ pc = "create_graph"
    /\ line_num < Len(csv_file)
    /\ LET row == csv_file[line_num + 1] IN
        /\ line_num' = line_num + 1
        /\ IF ~validate_row(row)
           THEN /\ pc' = "raised"
                /\ raised' = "CSVWrongValueException"
                /\ UNCHANGED graph
           ELSE IF ~filter_row(row_filters, row)
           THEN UNCHANGED <<graph, pc, raised>>
           ELSE IF ~FlightOk(row)
           THEN /\ pc' = "raised"
                /\ raised' = "ValueError"
                /\ UNCHANGED graph
           ELSE LET flight_object == NewFlight(row)
                    o == flight_object.origin
                IN  /\ graph' = [a \in DOMAIN graph \cup {o} |->
                                   IF a = o THEN Append(GraphGet(o), flight_object)
                                   ELSE graph[a]]
                    /\ UNCHANGED <<pc, raised>>
    /\ UNCHANGED <<csv_file, row_filters, layover_rule>>
    /\ UNCHANGED searchVars
    /\ UNCHANGED unitVars

\* the generator is exhausted: FlightGraph.__init__ returns
EndOfFile ==
    /\ pc = "create_graph"
    /\ line_num = Len(csv_file)
    /\ pc' = "ready"
    /\ UNCHANGED <<readerVars, graph, layover_rule, raised>>
    /\ UNCHANGED searchVars
    /\ UNCHANGED unitVars

\* FlightGraph.set_layover_rule
set_layover_rule(rule) ==
    /\ pc = "ready"
    /\ layover_rule = <<>>
    /\ layover_rule' = <<rule>>
    /\ UNCHANGED <<readerVars, graph, pc, raised>>
    /\ UNCHANGED searchVars
    /\ UNCHANGED unitVars

\* find_trips reading the bucket as self.graph[origin]: an origin without
\* a bucket raises KeyError
CallFindTrips_subscript(o, d, s) ==
    /\ pc = "ready"
    /\ query' = [origin |-> o, destination |-> d, start_date |-> s, reverse |-> FALSE]
    /\ call' = [origin |-> o, destination |-> d, start_date |-> s, mode |-> "forward"]
    /\ trips' = <<>>
    /\ flight_idx' = 1
    /\ IF o \in DOMAIN graph
       THEN pc' = "find_trips" /\ UNCHANGED raised
       ELSE pc' = "raised" /\ raised' = "KeyError"
    /\ UNCHANGED <<readerVars, graph, layover_rule>>
    /\ UNCHANGED <<exploreVars, reverseVars, result, returned>>
    /\ UNCHANGED unitVars

\* the caller invokes find_trips(origin, destination, start_date)
CallFindTrips(o, d, s) ==
    /\ pc = "ready"
    /\ query' = [origin |-> o, destination |-> d, start_date |-> s, reverse |-> FALSE]
    /\ call' = [origin |-> o, destination |-> d, start_date |-> s, mode |-> "forward"]
    /\ trips' = <<>>
    /\ flight_idx' = 1
    /\ pc' = "find_trips"
    /\ UNCHANGED <<readerVars, graph, layover_rule, raised>>
    /\ UNCHANGED <<exploreVars, reverseVars, result, returned>>
    /\ UNCHANGED unitVars

\* the caller invokes find_trips_reverse(origin, destination, start_date),
\* which first calls find_trips(origin, destination, start_date)
CallFindTripsReverse(o, d, s) ==
    /\ pc = "ready"
    /\ query' = [origin |-> o, destination |-> d, start_date |-> s, reverse |-> TRUE]
    /\ call' = [origin |-> o, destination |-> d, start_date |-> s, mode |-> "outbound"]
    /\ all_trips' = <<>>
    /\ trips' = <<>>
    /\ flight_idx' = 1
    /\ pc' = "find_trips"
    /\ UNCHANGED <<readerVars, graph, layover_rule, raised>>
    /\ UNCHANGED <<exploreVars, out_trips, trip_idx, result, returned>>
    /\ UNCHANGED unitVars

\* departs_in_time with a strict comparison
departs_in_time_strict(start_date, flight) == start_date < get_departure_time(flight)

\* find_trips: `if start_date <= flight.get_departure_time()`
departs_in_time(start_date, flight) == start_date <= get_departure_time(flight)

NewFrame(flight) == [flight |-> flight, next |-> 1, is_correct_trip |-> TRUE]

\* find_trips: one iteration of `for flight in self.graph.get(origin, [])`
\* that calls explore with a fresh visited set and trip
FindTripsExplore ==
    /\ pc = "find_trips"
    /\ flight_idx <= Len(GraphGet(call.origin))
    /\ LET flight == GraphGet(call.origin)[flight_idx] IN
        /\ departs_in_time(call.start_date, flight)
        /\ visited_airport' = {}
        /\ current_trip' = <<>>
        /\ stack' = <<NewFrame(flight)>>
    /\ flight_idx' = flight_idx + 1
    /\ pc' = "explore"
    /\ UNCHANGED <<readerVars, graph, layover_rule, raised>>
    /\ UNCHANGED <<query, call, trips, reverseVars, result, returned>>
    /\ UNCHANGED unitVars

\* find_trips: one iteration whose flight departs before start_date
FindTripsSkip ==
    /\ pc = "find_trips"
    /\ flight_idx <= Len(GraphGet(call.origin))
    /\ ~departs_in_time(call.start_date, GraphGet(call.origin)[flight_idx])
    /\ flight_idx' = flight_idx + 1
    /\ UNCHANGED <<readerVars, graph, layover_rule, raised, pc>>
    /\ UNCHANGED <<query, call, exploreVars, trips, reverseVars, result, returned>>
    /\ UNCHANGED unitVars

Top == stack[Len(stack)]
SetTop(frame) == [stack EXCEPT ![Len(stack)] = frame]

\* explore without the else of line 232: the flights leaving the destination
\* are tried after the trip was recorded
ExploreEnter_continue ==
    /\ pc = "explore"
    /\ LET flight == Top.flight IN
        /\ visited_airport' = visited_airport \cup {flight.origin, flight.destination}
        /\ current_trip' = Append(current_trip, flight)
        /\ trips' = IF flight.destination = call.destination
                    THEN Append(trips, current_trip') ELSE trips
        /\ IF flight.destination \notin DOMAIN graph
           THEN pc' = "raised" /\ raised' = "KeyError"
           ELSE pc' = "explore_loop" /\ UNCHANGED raised
    /\ UNCHANGED <<readerVars, graph, layover_rule>>
    /\ UNCHANGED <<query, call, flight_idx, stack, reverseVars, result, returned>>
    /\ UNCHANGED unitVars

\* explore, lines 217-230 and the lookup of line 236
ExploreEnter ==
    /\ pc = "explore"
    /\ LET flight == Top.flight IN
        /\ visited_airport' = visited_airport \cup {flight.origin, flight.destination}
        /\ current_trip' = Append(current_trip, flight)
        /\ IF flight.destination = call.destination
           THEN /\ trips' = Append(trips, current_trip')
                /\ pc' = "explore_exit"
                /\ UNCHANGED raised
           ELSE IF flight.destination \notin DOMAIN graph
           THEN /\ pc' = "raised"
                /\ raised' = "KeyError"
                /\ UNCHANGED trips
           ELSE /\ pc' = "explore_loop"
                /\ UNCHANGED <<trips, raised>>
    /\ UNCHANGED <<readerVars, graph, layover_rule>>
    /\ UNCHANGED <<query, call, flight_idx, stack, reverseVars, result, returned>>
    /\ UNCHANGED unitVars

\* explore: the condition of lines 240-241
may_take(flight, next_flight) ==
    /\ next_flight.destination \notin visited_airport
    /\ is_valid_layover(flight, next_flight)

\* explore: an iteration of `for next_flight in ...` that recurses
ExploreRecurse ==
    /\ pc = "explore_loop"
    /\ Top.next <= Len(graph[Top.flight.destination])
    /\ LET next_flight == graph[Top.flight.destination][Top.next] IN
        /\ may_take(Top.flight, next_flight)
        /\ stack' = Append(SetTop([Top EXCEPT !.next = @ + 1]), NewFrame(next_flight))
    /\ pc' = "explore"
    /\ UNCHANGED <<readerVars, graph, layover_rule, raised>>
    /\ UNCHANGED <<query, call, flight_idx, visited_airport, current_trip, trips,
                   reverseVars, result, returned>>
    /\ UNCHANGED unitVars

\* explore: an iteration of `for next_flight in ...` that does not recurse
ExploreSkip ==
    /\ pc = "explore_loop"
    /\ Top.next <= Len(graph[Top.flight.destination])
    /\ ~may_take(Top.flight, graph[Top.flight.destination][Top.next])
    /\ stack' = SetTop([Top EXCEPT !.next = @ + 1])
    /\ UNCHANGED <<readerVars, graph, layover_rule, raised, pc>>
    /\ UNCHANGED <<query, call, flight_idx, visited_airport, current_trip, trips,
                   reverseVars, result, returned>>
    /\ UNCHANGED unitVars

\* explore: the loop is over, line 247
ExploreLoopEnd ==
    /\ pc = "explore_loop"
    /\ Top.next > Len(graph[Top.flight.destination])
    /\ stack' = SetTop([Top EXCEPT !.is_correct_trip = FALSE])
    /\ pc' = "explore_exit"
    /\ UNCHANGED <<readerVars, graph, layover_rule, raised>>
    /\ UNCHANGED <<query, call, flight_idx, visited_airport, current_trip, trips,
                   reverseVars, result, returned>>
    /\ UNCHANGED unitVars

\* explore: lines 256-258, which airports stay visited on the way back
release(frame, visited) ==
    IF frame.is_correct_trip
    THEN visited \ {frame.flight.destination}
    ELSE visited

\* explore: lines 251-258 and the return to the caller
ExploreReturn ==
    /\ pc = "explore_exit"
    /\ current_trip' = Front(current_trip)
    /\ visited_airport' = release(Top, visited_airport)
    /\ stack' = Front(stack)
    /\ pc' = IF Len(stack) = 1 THEN "find_trips" ELSE "explore_loop"
    /\ UNCHANGED <<readerVars, graph, layover_rule, raised>>
    /\ UNCHANGED <<query, call, flight_idx, trips, reverseVars, result, returned>>
    /\ UNCHANGED unitVars

Returned == [origin |-> call.origin, destination |-> call.destination,
             start_date |-> call.start_date, trips |-> trips]

\* find_trips returns to the caller of the public find_trips
FindTripsReturn ==
    /\ pc = "find_trips"
    /\ flight_idx > Len(GraphGet(call.origin))
    /\ call.mode = "forward"
    /\ result' = trips
    /\ returned' = Append(returned, Returned)
    /\ pc' = "done"
    /\ UNCHANGED <<readerVars, graph, layover_rule, raised>>
    /\ UNCHANGED <<query, call, flight_idx, exploreVars, trips, reverseVars>>
    /\ UNCHANGED unitVars

\* find_trips returns to find_trips_reverse, line 183
OutboundReturn ==
    /\ pc = "find_trips"
    /\ flight_idx > Len(GraphGet(call.origin))
    /\ call.mode = "outbound"
    /\ out_trips' = trips
    /\ trip_idx' = 1
    /\ returned' = Append(returned, Returned)
    /\ pc' = "reverse"
    /\ UNCHANGED <<readerVars, graph, layover_rule, raised>>
    /\ UNCHANGED <<query, call, flight_idx, exploreVars, trips, all_trips, result>>
    /\ UNCHANGED unitVars

\* return_bound with the minimum layover added at the seam
return_bound_with_layover(trip) ==
    get_arrival_time(Last(trip))
      + (IF layover_rule # <<>> THEN timedelta_hours(layover_rule[1].min_layover) ELSE 0)

\* find_trips_reverse: the lower bound of the return search, lines 190-193
return_bound(trip) == get_arrival_time(Last(trip))

\* find_trips_reverse: one iteration of `for trip in trips`, up to the call
\* of find_trips(destination, origin, last_flight_arrival_time)
ReverseCall ==
    /\ pc = "reverse"
    /\ trip_idx <= Len(out_trips)
    /\ call' = [origin |-> query.destination, destination |-> query.origin,
                start_date |-> return_bound(out_trips[trip_idx]), mode |-> "return"]
    /\ trips' = <<>>
    /\ flight_idx' = 1
    /\ pc' = "find_trips"
    /\ UNCHANGED <<readerVars, graph, layover_rule, raised>>
    /\ UNCHANGED <<query, exploreVars, reverseVars, result, returned>>
    /\ UNCHANGED unitVars

\* extend that keeps an outbound trip without return trips
extend_keep_outbound(all, trip, reverse_trips) ==
    IF reverse_trips = <<>>
    THEN Append(all, trip)
    ELSE all \o [j \in 1..Len(reverse_trips) |-> trip \o reverse_trips[j]]

\* find_trips_reverse: lines 204-207
extend(all, trip, reverse_trips) ==
    all \o [j \in 1..Len(reverse_trips) |-> trip \o reverse_trips[j]]

\* find_trips returns to find_trips_reverse, line 200, and the iteration ends
ReverseExtend ==
    /\ pc = "find_trips"
    /\ flight_idx > Len(GraphGet(call.origin))
    /\ call.mode = "return"
    /\ all_trips' = extend(all_trips, out_trips[trip_idx], trips)
    /\ trip_idx' = trip_idx + 1
    /\ returned' = Append(returned, Returned)
    /\ pc' = "reverse"
    /\ UNCHANGED <<readerVars, graph, layover_rule, raised>>
    /\ UNCHANGED <<query, call, flight_idx, exploreVars, trips, out_trips, result>>
    /\ UNCHANGED unitVars

\* find_trips_reverse returns all_trips
ReverseReturn ==
    /\ pc = "reverse"
    /\ trip_idx > Len(out_trips)
    /\ result' = all_trips
    /\ pc' = "done"
    /\ UNCHANGED <<readerVars, graph, layover_rule, raised>>
    /\ UNCHANGED <<query, call, flight_idx, exploreVars, trips, reverseVars, returned>>
    /\ UNCHANGED unitVars

Next ==
    \/ ReadRow
    \/ EndOfFile
    \/ \E rule \in LayoverRules : set_layover_rule(rule)
    \/ \E p \in QueryPairs, s \in StartDates : CallFindTrips(p[1], p[2], Strptime(s))
    \/ \E p \in QueryPairs, s \in StartDates : CallFindTripsReverse(p[1], p[2], Strptime(s))
    \/ FindTripsExplore
    \/ FindTripsSkip
    \/ ExploreEnter
    \/ ExploreRecurse
    \/ ExploreSkip
    \/ ExploreLoopEnd
    \/ ExploreReturn
    \/ FindTripsReturn
    \/ OutboundReturn
    \/ ReverseCall
    \/ ReverseExtend
    \/ ReverseReturn

Spec == Init /\ [][Next]_vars

\* the program is single-threaded and runs on: a step that can be taken is
\* taken
SpecFair == Init /\ [][Next]_vars /\ WF_vars(Next)

-----------------------------------------------------------------------------
(* DefaultLayoverRule.validate on its own *)

\* the hours and minutes of the departures validate is tried on
LayoverHours == {0, 1, 2, 9, 10, 11, 12, 13, 23}
LayoverMinutes == {0, 1, 59}

PrevFlights ==
    {NewFlight(Row("P", "A", "B", <<1, 8, 0>>, arr, Decimal(10, 0), Whole(1), Whole(1))) :
        arr \in {<<1, 10, 0>>, <<1, 23, 0>>}}

NextFlights ==
    {NewFlight(Row("N", "B", "C", <<day, h, m>>, <<3, 0, 0>>, Decimal(10, 0), Whole(1), Whole(1))) :
        day \in {1, 2}, h \in LayoverHours, m \in LayoverMinutes}

InitLayover ==
    /\ SearchIdle
    /\ TripIdle
    /\ GenIdle
    /\ MainIdle
    /\ layover_rule \in {<<[min_layover |-> m, max_layover |-> x]>> :
                            m \in 0..MaxLayover, x \in 0..MaxLayover}
    /\ arg_prev_flight \in PrevFlights
    /\ arg_next_flight \in NextFlights
    /\ valid = FALSE
    /\ pc = "validate"

\* a call of layover_rule.validate(prev_flight, next_flight)
Validate ==
    /\ pc = "validate"
    /\ valid' = validate(layover_rule[1], arg_prev_flight, arg_next_flight)
    /\ pc' = "validated"
    /\ UNCHANGED <<readerVars, graph, layover_rule, raised, searchVars>>
    /\ UNCHANGED <<arg_prev_flight, arg_next_flight, tripVars, genVars, mainVars>>

NextLayover == Validate

SpecLayover == InitLayover /\ [][NextLayover]_vars

-----------------------------------------------------------------------------
(* Flight and FlightTrip on their own *)

\* FlightTrip.__post_init__: `bags_allowed: int = 999`
InitialBagsAllowed == 999

\* the airports of the legs of a trip, in order
Chain == <<"A", "B", "C", "D">>

\* the prices and the capacity of a record: CSV texts, or numbers
LegNumbers ==
    {<<Decimal(10, 5), Whole(3), Whole(0)>>, <<Decimal(10, 5), Whole(3), Whole(2)>>,
     <<Decimal(10, 5), Decimal(2, 5), Whole(0)>>, <<Decimal(10, 5), Decimal(2, 5), Whole(2)>>,
     <<Number(20, 0), Number(2, 5), Number(0, 0)>>, <<Number(20, 0), Number(2, 5), Number(2, 0)>>,
     <<Number(20, 0), Number(4, 0), Number(0, 0)>>, <<Number(20, 0), Number(4, 0), Number(2, 0)>>,
     <<Decimal(10, 5), Whole(3), Whole(InitialBagsAllowed)>>,
     <<Decimal(10, 5), Whole(3), Whole(InitialBagsAllowed + 1)>>}

\* the flight data of leg i
LegRecords(i) ==
    {Row("L", Chain[i], Chain[i + 1], <<1, 4 * i, 0>>, <<1, 4 * i + 2, 0>>,
         n[1], n[2], n[3]) : n \in LegNumbers}

TripRecords ==
    UNION { {r \in [1..n -> UNION {LegRecords(i) : i \in 1..n}] :
                \A i \in 1..n : r[i] \in LegRecords(i)} : n \in 1..MaxLegs }

InitTrip ==
    /\ SearchIdle
    /\ LayoverIdle
    /\ GenIdle
    /\ MainIdle
    /\ layover_rule = <<>>
    /\ records \in TripRecords
    /\ bags_count \in 0..MaxBags
    /\ flights = <<>>
    /\ acc = <<>>
    /\ flight_trip = <<>>
    /\ pc = "new_flight"

\* Flight(**flight_data): the conversions of __post_init__ raise ValueError
\* on a text int() does not accept
ConstructFlight ==
    /\ pc = "new_flight"
    /\ Len(flights) < Len(records)
    /\ LET row == records[Len(flights) + 1] IN
        IF FlightOk(row)
        THEN /\ flights' = Append(flights, NewFlight(row))
             /\ UNCHANGED <<pc, raised>>
        ELSE /\ pc' = "raised"
             /\ raised' = "ValueError"
             /\ UNCHANGED flights
    /\ UNCHANGED <<readerVars, graph, layover_rule, query, call, flight_idx,
                   exploreVars, trips, reverseVars, result, returned, layoverVars,
                   genVars, mainVars>>
    /\ UNCHANGED <<records, bags_count, acc, flight_trip>>

\* Flight.get_full_price, in tenths
get_full_price(flight, bags) == flight.base_price + (bags * flight.bag_price) * 10

\* Flight.get_travel_time, in minutes
get_travel_time(flight) == get_arrival_time(flight) - get_departure_time(flight)

\* str(timedelta): days, hours and minutes
str_timedelta(t) == <<t \div 1440, (t % 1440) \div 60, t % 60>>

\* FlightTrip(flights = ..., bags_count = ...): __post_init__, lines 67-69
TripPostInit ==
    /\ pc = "new_flight"
    /\ Len(flights) = Len(records)
    /\ acc' = <<[bags_allowed |-> InitialBagsAllowed, total_price |-> 0,
                 travel_time |-> 0, next |-> 1]>>
    /\ pc' = "post_init"
    /\ UNCHANGED <<readerVars, graph, layover_rule, raised, query, call, flight_idx,
                   exploreVars, trips, reverseVars, result, returned, layoverVars,
                   genVars, mainVars>>
    /\ UNCHANGED <<records, bags_count, flights, flight_trip>>

\* min(a, b)
py_min(a, b) == IF b < a THEN b ELSE a

\* __post_init__: one iteration of `for flight in self.flights`
TripLoop ==
    /\ pc = "post_init"
    /\ acc[1].next <= Len(flights)
    /\ LET flight == flights[acc[1].next] IN
        acc' = <<[bags_allowed |-> py_min(acc[1].bags_allowed, flight.bags_allowed),
                  total_price |-> acc[1].total_price + get_full_price(flight, bags_count),
                  travel_time |-> acc[1].travel_time + get_travel_time(flight),
                  next |-> acc[1].next + 1]>>
    /\ UNCHANGED <<readerVars, graph, layover_rule, raised, pc, query, call, flight_idx,
                   exploreVars, trips, reverseVars, result, returned, layoverVars,
                   genVars, mainVars>>
    /\ UNCHANGED <<records, bags_count, flights, flight_trip>>

\* __post_init__: lines 76-78
TripBuilt ==
    /\ pc = "post_init"
    /\ acc[1].next > Len(flights)
    /\ flight_trip' = <<[flights |-> flights,
                         bags_allowed |-> acc[1].bags_allowed,
                         bags_count |-> bags_count,
                         total_price |-> acc[1].total_price,
                         travel_time |-> str_timedelta(acc[1].travel_time)]>>
    /\ pc' = "trip_built"
    /\ UNCHANGED <<readerVars, graph, layover_rule, raised, query, call, flight_idx,
                   exploreVars, trips, reverseVars, result, returned, layoverVars,
                   genVars, mainVars>>
    /\ UNCHANGED <<records, bags_count, flights, acc>>

NextTrip ==
    \/ ConstructFlight
    \/ TripPostInit
    \/ TripLoop
    \/ TripBuilt

SpecTrip == InitTrip /\ [][NextTrip]_vars

-----------------------------------------------------------------------------
(* FlightTripDataGenerator on its own *)

\* the flights of the trips a search hands over
G(no, o, d, h, base, bag) ==
    NewFlight(Row(no, o, d, <<1, h, 0>>, <<1, h + 1, 0>>, base, Whole(bag), Whole(2)))

\* trips from A to D: some cost the same with any bag count, some with one bag
GenPaths ==
    { << G("G1", "A", "D", 8, Decimal(40, 0), 5) >>,
      << G("G2", "A", "D", 12, Decimal(40, 0), 5) >>,
      << G("G3", "A", "D", 15, Decimal(45, 0), 0) >>,
      << G("G4", "A", "B", 8, Decimal(10, 0), 5), G("G5", "B", "D", 11, Decimal(20, 5), 5) >>,
      << G("G6", "A", "D", 20, Decimal(30, 5), 10) >> }

\* the lists of at most n different trips
PathLists(n) ==
    UNION { {ts \in [1..k -> GenPaths] : \A i, j \in 1..k : ts[i] = ts[j] => i = j} :
            k \in 0..n }

InitGenerator ==
    /\ SearchIdle
    /\ LayoverIdle
    /\ TripIdle
    /\ MainIdle
    /\ layover_rule = <<>>
    /\ paths = <<>>
    /\ self_trips = <<>>
    /\ self_bags \in 0..MaxBags
    /\ pc = "generator"

RECURSIVE post_init(_, _, _)
\* FlightTrip.__post_init__: the loop over the flights from index i
post_init(trip, fs, i) ==
    IF i > Len(fs) THEN trip
    ELSE post_init([trip EXCEPT
                      !.bags_allowed = py_min(@, fs[i].bags_allowed),
                      !.total_price = @ + get_full_price(fs[i], trip.bags_count),
                      !.travel_time = @ + get_travel_time(fs[i])],
                   fs, i + 1)

\* FlightTrip(flights = fs, bags_count = bags)
NewFlightTrip(fs, bags) ==
    LET trip == post_init([flights |-> fs, bags_allowed |-> InitialBagsAllowed,
                           bags_count |-> bags, total_price |-> 0,
                           travel_time |-> 0], fs, 1)
    IN  [trip EXCEPT !.travel_time = str_timedelta(@)]

\* a comparison that also holds of trips of equal price
lt_or_equal(self, other) == self.total_price <= other.total_price

\* FlightTrip.__lt__
lt(self, other) == self.total_price < other.total_price

RECURSIVE insort(_, _)
\* list.sort: an element goes before the first one it is less than
insort(sorted, x) ==
    IF sorted = <<>> THEN <<x>>
    ELSE IF lt(x, sorted[1]) THEN <<x>> \o sorted
    ELSE <<sorted[1]>> \o insort(Tail(sorted), x)

RECURSIVE list_sort(_)
\* list.sort(): insertion of the elements in their order, by __lt__ alone
list_sort(s) ==
    IF s = <<>> THEN <<>> ELSE insort(list_sort(Front(s)), Last(s))

\* add_trips(ts): the trips are appended, then the whole list is sorted
add_trips(ts) ==
    /\ pc = "generator"
    /\ Len(paths) + Len(ts) <= MaxPaths
    /\ \A i \in 1..Len(ts) : ts[i] \notin Range(paths)
    /\ paths' = paths \o ts
    /\ self_trips' = list_sort(self_trips \o
                        [i \in 1..Len(ts) |-> NewFlightTrip(ts[i], self_bags)])
    /\ UNCHANGED <<readerVars, graph, layover_rule, pc, raised, searchVars>>
    /\ UNCHANGED <<layoverVars, tripVars, self_bags, mainVars>>

NextGenerator == \E ts \in PathLists(MaxPaths) : add_trips(ts)

SpecGenerator == InitGenerator /\ [][NextGenerator]_vars

-----------------------------------------------------------------------------
(* main: the run from the command line *)

\* the rows the files of a run are cut from: rows of the timetable, a row
\* whose per-bag price has a fraction, and rows with a malformed cell
MainSchedule ==
    << Schedule[2], Schedule[3], Schedule[5], Schedule[8], Schedule[10],
       Row("V1", "A", "D", <<1, 9, 0>>, <<1, 11, 0>>, Decimal(30, 0), Decimal(2, 5), Whole(2)),
       Row("M1", "A", "D", <<1, 9, 0>>, <<1, 11, 0>>, NotANumber, Whole(9), Whole(0)),
       Row("M2", "A", "D", <<1, 24, 0>>, <<2, 1, 0>>, Decimal(30, 0), Whole(9), Whole(2)),
       Row("M3", "B", "D", <<1, 12, 0>>, <<1, 13, 0>>, Decimal(30, 0), Whole(9), Whole(0 - 1)),
       Row("", "C", "D", <<1, 12, 0>>, <<1, 13, 0>>, Decimal(30, 0), Whole(9), Whole(1)) >>

MainFiles ==
    { [i \in 1..Cardinality(S) |-> MainSchedule[Sorted(S)[i]]] :
        S \in {T \in SUBSET (1..Len(MainSchedule)) : Cardinality(T) <= MaxRows} }

\* a header that is not CSV_FIELDS
WrongHeader == <<"flight_no", "origin", "destination", "departure", "arrival",
                 "base_price", "bags_allowed", "bag_price">>

\* main, after the arguments were read: BAGS, START_DATE, the file at CSV
InitMain ==
    /\ path_exists \in BOOLEAN
    /\ IF path_exists
       THEN csv_file \in MainFiles /\ fieldnames \in {CSV_FIELDS, WrongHeader}
       ELSE csv_file = <<>> /\ fieldnames = <<>>
    /\ self_bags \in 0..MaxBags
    /\ row_filters \in {<<BagRowFilter(self_bags)>>,
                         <<StartDateFilter(Strptime(<<1, 10, 0>>)), BagRowFilter(self_bags)>>}
    /\ exit_code = <<>>
    /\ stdout = <<>>
    /\ paths = <<>>
    /\ self_trips = <<>>
    /\ line_num = 0
    /\ graph = [a \in {} |-> <<>>]
    /\ layover_rule = <<>>
    /\ pc = "main"
    /\ raised = ""
    /\ query = NoQuery
    /\ call = NoCall
    /\ flight_idx = 0
    /\ stack = <<>>
    /\ visited_airport = {}
    /\ current_trip = <<>>
    /\ trips = <<>>
    /\ out_trips = <<>>
    /\ trip_idx = 0
    /\ all_trips = <<>>
    /\ result = <<>>
    /\ returned = <<>>
    /\ LayoverIdle
    /\ TripIdle

\* main: the reader is constructed; FileNotFoundError is caught, the error
\* is printed and the run exits with status 1
MainReader ==
    /\ pc = "main"
    /\ IF ~path_exists
       THEN /\ raised' = "FileNotFoundError"
            /\ exit_code' = <<1>>
            /\ pc' = "exit"
       ELSE /\ pc' = "read"
            /\ UNCHANGED <<raised, exit_code>>
    /\ UNCHANGED <<readerVars, graph, layover_rule, searchVars>>
    /\ UNCHANGED <<layoverVars, tripVars, genVars, path_exists, fieldnames, stdout>>

\* FlightCSVReader.read up to its first row, run by the first iteration of
\* create_graph: the header is compared with CSV_FIELDS
ReadHeader ==
    /\ pc = "read"
    /\ IF fieldnames # CSV_FIELDS
       THEN /\ raised' = "CSVHeaderException"
            /\ pc' = "raised"
       ELSE /\ pc' = "create_graph"
            /\ UNCHANGED raised
    /\ UNCHANGED <<readerVars, graph, layover_rule, searchVars>>
    /\ UNCHANGED unitVars

\* main: an exception ends the run. CSVHeaderException and
\* CSVWrongValueException are caught, printed and followed by exit(1); any
\* other exception leaves main and the interpreter exits with status 1
MainExcept ==
    /\ pc = "raised"
    /\ exit_code' = <<1>>
    /\ pc' = "exit"
    /\ UNCHANGED <<readerVars, graph, layover_rule, raised, searchVars>>
    /\ UNCHANGED <<layoverVars, tripVars, genVars, path_exists, fieldnames, stdout>>

\* main: the trips found go through FlightTripDataGenerator and the json
\* text is printed
MainReturn ==
    /\ pc = "done"
    /\ paths' = result
    /\ self_trips' = list_sort([i \in 1..Len(result) |->
                                  NewFlightTrip(result[i], self_bags)])
    /\ stdout' = <<self_trips'>>
    /\ exit_code' = <<0>>
    /\ pc' = "exit"
    /\ UNCHANGED <<readerVars, graph, layover_rule, raised, searchVars>>
    /\ UNCHANGED <<layoverVars, tripVars, self_bags, path_exists, fieldnames>>

NextMain ==
    \/ MainReader
    \/ ReadHeader
    \/ Next
    \/ MainExcept
    \/ MainReturn

SpecMain == InitMain /\ [][NextMain]_vars

-----------------------------------------------------------------------------
(* What the claims speak of *)

Finished == pc = "done"
Forward == Finished /\ ~query.reverse
Reverse == Finished /\ query.reverse

\* the airports a trip passes, in order
AirportsOf(trip) ==
    [i \in 1..Len(trip) + 1 |-> IF i = 1 THEN trip[1].origin ELSE trip[i - 1].destination]

Distinct(s) == \A i, j \in 1..Len(s) : i # j => s[i] # s[j]

Connected(trip) ==
    \A i \in 1..Len(trip) - 1 : trip[i].destination = trip[i + 1].origin

LayoversValid(trip) ==
    \A i \in 1..Len(trip) - 1 : is_valid_layover(trip[i], trip[i + 1])

\* a simple path of flights from o to d whose first leg departs at or after s
IsRoute(trip, o, d, s) ==
    /\ trip[1].origin = o
    /\ s <= get_departure_time(trip[1])
    /\ Connected(trip)
    /\ LayoversValid(trip)
    /\ Distinct(AirportsOf(trip))
    /\ Last(trip).destination = d
    /\ \A i \in 1..Len(trip) - 1 : trip[i].destination # d

\* a simple path has fewer legs than there are airports
Routes(fs, o, d, s) ==
    UNION { {trip \in [1..n -> fs] : IsRoute(trip, o, d, s)} :
              n \in 1..Cardinality(Airports) - 1 }

FlightsOf(g) == UNION {Range(g[a]) : a \in DOMAIN g}

\* the flights of the whole file, those a filter removed included
FileFlights == {NewFlight(csv_file[i]) : i \in 1..Len(csv_file)}

-----------------------------------------------------------------------------
(* C1 - forward search is complete: find_trips returns every simple path    *)
(* from origin to destination whose first leg departs at or after the start *)
(* bound and whose adjacent legs are connected and pass the layover rule.   *)
C1_ForwardComplete ==
    Forward =>
        \A trip \in Routes(FlightsOf(graph), query.origin, query.destination,
                           query.start_date) :
            trip \in Range(result)

(* C2 - the search core never raises: find_trips and find_trips_reverse     *)
(* never end in an exception, also at an airport without departing flights. *)
C2_SearchNeverRaises == ~(pc = "raised" /\ raised = "KeyError")

(* C3 - too many bags gives an empty result and no error: when the file     *)
(* holds a route from origin to destination and every such route has a leg  *)
(* whose bags_allowed is below the requested count, the run raises nothing  *)
(* and the result is empty.                                                 *)
C3_TooManyBagsEmpty ==
    LET bags == row_filters[1].bags
        routes == Routes(FileFlights, query.origin, query.destination,
                         query.start_date)
    IN  ( /\ pc \in {"done", "raised"}
          /\ query # NoQuery
          /\ routes # {}
          /\ \A trip \in routes : \E i \in 1..Len(trip) : trip[i].bags_allowed < bags )
        => (raised = "" /\ result = <<>>)

(* C4 - no trip returned by find_trips visits an airport twice: the first   *)
(* leg's origin and the destinations of the legs are pairwise distinct.     *)
(* Stated for the queries between two different airports.                   *)
C4_NoAirportTwice ==
    (Forward /\ query.origin # query.destination) => \A trip \in Range(result) : Distinct(AirportsOf(trip))

(* C5 - adjacent legs of every trip returned by find_trips are connected    *)
(* and pass the installed layover rule; with no rule installed every       *)
(* connected pair is accepted: each first leg followed by a flight to the  *)
(* destination is returned, whatever the gap between them.                 *)
C5_AdjacentLegsValid ==
    Forward =>
        /\ \A trip \in Range(result) :
              /\ Connected(trip)
              /\ layover_rule # <<>> =>
                    \A i \in 1..Len(trip) - 1 :
                        validate(layover_rule[1], trip[i], trip[i + 1])
        /\ layover_rule = <<>> =>
              \A f \in Range(GraphGet(query.origin)) :
                  \A g \in Range(GraphGet(f.destination)) :
                      ( /\ query.start_date <= get_departure_time(f)
                        /\ f.destination # query.destination
                        /\ f.origin # query.destination
                        /\ g.destination = query.destination )
                      => <<f, g>> \in Range(result)

\* a trip of two legs was returned under an installed rule
C5_Witness ==
    /\ Forward
    /\ layover_rule # <<>>
    /\ \E trip \in Range(result) : Len(trip) >= 2

(* C7 - every trip returned by find_trips starts at the query origin with  *)
(* a departure at or after the start date, a departure equal to it being   *)
(* accepted; later legs are held to the layover rule only, not to the      *)
(* start date.                                                             *)
C7_FirstLegAfterStart ==
    Forward =>
        /\ \A trip \in Range(result) :
              /\ trip[1].origin = query.origin
              /\ query.start_date <= get_departure_time(trip[1])
        /\ \A f \in Range(GraphGet(query.origin)) :
              /\ ( /\ query.start_date <= get_departure_time(f)
                   /\ f.destination = query.destination )
                 => <<f>> \in Range(result)
              /\ \A g \in Range(GraphGet(f.destination)) :
                    ( /\ query.start_date <= get_departure_time(f)
                      /\ f.destination # query.destination
                      /\ f.origin # query.destination
                      /\ g.destination = query.destination
                      /\ is_valid_layover(f, g) )
                    => <<f, g>> \in Range(result)

\* a trip was returned whose first leg departs exactly at the start date
\* and whose second leg departs before it
C7_Witness ==
    /\ Forward
    /\ \E trip \in Range(result) :
          /\ Len(trip) >= 2
          /\ get_departure_time(trip[1]) = query.start_date
          /\ get_departure_time(trip[2]) < query.start_date

\* minutes between the arrival of leg k and the departure of leg k + 1
Gap(trip, k) == get_departure_time(trip[k + 1]) - get_arrival_time(trip[k])

\* the places where a combined trip splits into an outbound trip and a
\* return trip
Seams(trip) ==
    {k \in 1..Len(trip) - 1 :
        /\ SubSeq(trip, 1, k) \in Range(out_trips)
        /\ trip[k + 1].origin = query.destination}

(* C8 - find_trips_reverse does not apply the layover rule at the seam: a  *)
(* combined trip's return part departs at or after the arrival of its      *)
(* outbound part, and every return flight to the origin that departs at or *)
(* after that arrival is combined with the outbound trip, whatever the     *)
(* layover rule says about the gap.                                        *)
C8_SeamUnconstrained ==
    Reverse =>
        /\ \A trip \in Range(result) :
              /\ Seams(trip) # {}
              /\ \A k \in Seams(trip) : Gap(trip, k) >= 0
        /\ \A o \in Range(out_trips) :
              \A f \in Range(GraphGet(query.destination)) :
                  ( /\ f.destination = query.origin
                    /\ get_arrival_time(Last(o)) <= get_departure_time(f) )
                  => o \o <<f>> \in Range(result)

\* under a rule with a minimum layover, one combined trip has a seam of
\* 0 hours and another a seam above the maximum layover
C8_Witness ==
    /\ Reverse
    /\ layover_rule # <<>>
    /\ layover_rule[1].min_layover >= 1
    /\ \E trip \in Range(result) : \E k \in Seams(trip) : Gap(trip, k) = 0
    /\ \E trip \in Range(result) : \E k \in Seams(trip) :
          Gap(trip, k) > timedelta_hours(layover_rule[1].max_layover)

RECURSIVE Flatten(_)
Flatten(ss) == IF ss = <<>> THEN <<>> ELSE ss[1] \o Flatten(Tail(ss))

RECURSIVE SumLen(_)
SumLen(ss) == IF ss = <<>> THEN 0 ELSE Len(ss[1]) + SumLen(Tail(ss))

(* C9 - find_trips_reverse is the cross product of two forward searches:   *)
(* it calls find_trips(origin, destination, start) once and, for each      *)
(* outbound trip o in order, find_trips(destination, origin, arrival of    *)
(* o's last leg); its result is the list of o followed by r for every      *)
(* return trip r, in that order, so an outbound trip without return trips  *)
(* contributes nothing.                                                    *)
C9_CrossProduct ==
    Reverse =>
        LET out == returned[1].trips
            ret == [i \in 1..Len(returned) - 1 |-> returned[i + 1]]
        IN  /\ returned[1].origin = query.origin
            /\ returned[1].destination = query.destination
            /\ returned[1].start_date = query.start_date
            /\ Len(ret) = Len(out)
            /\ \A i \in 1..Len(out) :
                  /\ ret[i].origin = query.destination
                  /\ ret[i].destination = query.origin
                  /\ ret[i].start_date = get_arrival_time(Last(out[i]))
            /\ result = Flatten([i \in 1..Len(out) |->
                            [j \in 1..Len(ret[i].trips) |-> out[i] \o ret[i].trips[j]]])
            /\ Len(result) = SumLen([i \in 1..Len(out) |-> ret[i].trips])

\* of two outbound trips one has no return trip, the other has one
C9_Witness ==
    /\ Reverse
    /\ Len(returned) >= 3
    /\ \E i \in 2..Len(returned) : returned[i].trips = <<>>
    /\ result # <<>>

\* minutes from the date-time a to the date-time b
MinutesBetween(a, b) == (b[1] - a[1]) * 1440 + (b[2] - a[2]) * 60 + (b[3] - a[3])

(* C6 - DefaultLayoverRule(min, max).validate(prev, next) is true exactly  *)
(* when min hours <= next.departure - prev.arrival <= max hours, both      *)
(* bounds inclusive; a negative gap is rejected.                           *)
C6_LayoverInclusive ==
    pc = "validated" =>
        LET rule == layover_rule[1]
            gap == MinutesBetween(arg_prev_flight.arrival, arg_next_flight.departure)
        IN  /\ valid <=> (rule.min_layover * 60 <= gap /\ gap <= rule.max_layover * 60)
            /\ gap < 0 => ~valid
            /\ (gap = rule.min_layover * 60 /\ rule.min_layover <= rule.max_layover) => valid
            /\ (gap = rule.max_layover * 60 /\ rule.min_layover <= rule.max_layover) => valid
            /\ gap = rule.min_layover * 60 - 1 => ~valid
            /\ gap = rule.max_layover * 60 + 1 => ~valid

\* a gap of exactly the minimum of one hour or more was accepted
C6_Witness ==
    /\ pc = "validated"
    /\ valid
    /\ layover_rule[1].min_layover >= 1
    /\ layover_rule[1].min_layover < layover_rule[1].max_layover
    /\ MinutesBetween(arg_prev_flight.arrival, arg_next_flight.departure)
         = layover_rule[1].min_layover * 60

RECURSIVE RecordsPrice(_, _)
\* the sum over the records of base price + bags * per-bag price, in tenths
RecordsPrice(rs, bags) ==
    IF rs = <<>> THEN 0
    ELSE py_float(rs[1].base_price) + bags * py_float(rs[1].bag_price)
         + RecordsPrice(Tail(rs), bags)

(* C10 - the total price of a trip is the sum over its legs of base price  *)
(* + requested bags * per-bag price, the prices being the decimal values   *)
(* of the input records.                                                   *)
C10_TotalPrice ==
    pc = "trip_built" =>
        flight_trip[1].total_price = RecordsPrice(records, bags_count)

\* arrival of the final leg minus departure of the first leg, in minutes
Elapsed(rs) == Strptime(Last(rs).arrival) - Strptime(rs[1].departure)

(* C11 - the travel time of a trip is the arrival time of its final leg    *)
(* minus the departure time of its first leg, the time spent between the   *)
(* legs included.                                                          *)
C11_TravelTimeElapsed ==
    pc = "trip_built" =>
        flight_trip[1].travel_time = str_timedelta(Elapsed(records))

\* the capacities of the records
Capacities(rs) == {py_int(rs[i].bags_allowed) : i \in 1..Len(rs)}

(* C12 - the bags_allowed of a trip of one leg or more is the least        *)
(* bags_allowed of its legs, whatever the capacities, 999 and above too.   *)
C12_BagsAllowedMin ==
    pc = "trip_built" /\ Len(records) >= 1 =>
        flight_trip[1].bags_allowed = Min(Capacities(records))

\* the place of a trip in the list handed over
PathIndex(fs) == CHOOSE i \in 1..Len(paths) : paths[i] = fs

(* C13 - after add_trips the list of trips is a permutation of the trips   *)
(* handed over, sorted non-decreasing by total price, and two trips of     *)
(* equal total price keep the order in which they were handed over.        *)
C13_SortedStable ==
    pc = "generator" =>
        /\ Len(self_trips) = Len(paths)
        /\ {self_trips[i].flights : i \in 1..Len(self_trips)} = Range(paths)
        /\ \A i \in 1..Len(self_trips) :
              self_trips[i] = NewFlightTrip(self_trips[i].flights, self_bags)
        /\ \A i, j \in 1..Len(self_trips) :
              i < j =>
                /\ self_trips[i].total_price <= self_trips[j].total_price
                /\ self_trips[i].total_price = self_trips[j].total_price
                     => PathIndex(self_trips[i].flights)
                          < PathIndex(self_trips[j].flights)

\* three trips were handed over, the cheapest last and two of equal price
\* before it
C13_Witness ==
    /\ pc = "generator"
    /\ Len(self_trips) = 3
    /\ self_trips[1].flights = paths[3]
    /\ self_trips[2].total_price = self_trips[3].total_price
    /\ self_trips[2].flights = paths[1]

(* C14 - a query whose origin has no departing flight in the graph (an     *)
(* unknown origin, an empty graph) never enters explore and never raises:  *)
(* find_trips and find_trips_reverse return an empty list.                 *)
C14_UnknownOriginEmpty ==
    query # NoQuery /\ GraphGet(query.origin) = <<>> =>
        /\ raised = ""
        /\ pc \in {"find_trips", "reverse", "done"}
        /\ stack = <<>>
        /\ trips = <<>>
        /\ Finished => result = <<>>

\* a reverse search from an airport without departures, in a graph that
\* has flights, has returned
C14_Witness ==
    /\ Finished
    /\ query.reverse
    /\ DOMAIN graph # {}
    /\ query.origin \notin DOMAIN graph
    /\ result = <<>>

\* s is t cut short
ProperPrefix(s, t) == Len(s) < Len(t) /\ SubSeq(t, 1, Len(s)) = s

(* C15 - a path of find_trips ends at the first leg that lands at the      *)
(* destination: its last leg lands there and no earlier leg does, no       *)
(* returned path extends another one, and explore never loops over the     *)
(* flights leaving the destination.                                        *)
C15_StopsAtDestination ==
    /\ \A k \in 1..Len(returned) :
          \A t \in Range(returned[k].trips) :
             /\ t # <<>>
             /\ Last(t).destination = returned[k].destination
             /\ \A i \in 1..(Len(t) - 1) :
                   t[i].destination # returned[k].destination
             /\ \A u \in Range(returned[k].trips) : ~ProperPrefix(t, u)
    /\ \A i \in 1..Len(stack) :
          (i < Len(stack) \/ pc = "explore_loop")
             => stack[i].flight.destination # call.destination

\* a path of two legs or more was returned although a flight leaves its
\* destination for an airport the path has not seen, after a valid layover
C15_Witness ==
    /\ Forward
    /\ \E t \in Range(result) :
          /\ Len(t) >= 2
          /\ \E g \in Range(GraphGet(query.destination)) :
                /\ g.destination \notin {t[i].origin : i \in 1..Len(t)}
                /\ g.destination # query.destination
                /\ is_valid_layover(Last(t), g)

\* the lines of the file whose row the validator rejects
Malformed == {i \in 1..Len(csv_file) : ~validate_row(csv_file[i])}

(* C16 - a missing file, a header that is not the eight expected names and *)
(* a row with a malformed cell each end the run with a non-zero status and *)
(* nothing printed as result; the header and the row are told apart by     *)
(* CSVHeaderException and CSVWrongValueException; the first malformed row  *)
(* is reported whenever the rows before it are valid, also when a filter   *)
(* would have dropped it.                                                  *)
C16_IngestionFailures ==
    /\ stdout # <<>> => exit_code = <<0>>
    /\ pc = "exit" =>
        /\ ~path_exists =>
              exit_code = <<1>> /\ stdout = <<>> /\ raised = "FileNotFoundError"
        /\ path_exists /\ fieldnames # CSV_FIELDS =>
              exit_code = <<1>> /\ stdout = <<>> /\ raised = "CSVHeaderException"
        /\ path_exists /\ fieldnames = CSV_FIELDS /\ Malformed # {} =>
              /\ exit_code = <<1>>
              /\ stdout = <<>>
              /\ raised = "CSVWrongValueException"
              /\ line_num = Min(Malformed)

\* a complete path through the in-progress path was recorded
BranchReached ==
    \E t \in Range(trips) :
        Len(t) >= Len(current_trip) /\ SubSeq(t, 1, Len(current_trip)) = current_trip

(* C17 - when explore backtracks out of a flight, the airport the flight   *)
(* lands at is taken out of the visited set unless it was a true dead end: *)
(* an airport through which a complete path was recorded is released, a    *)
(* dead end stays visited.                                                 *)
C17_ReleaseOnBacktrack ==
    [][ pc = "explore_exit" /\ stack' = Front(stack) =>
          IF BranchReached
          THEN Top.flight.destination \notin visited_airport'
          ELSE Top.flight.destination \in visited_airport' ]_vars

\* the airports of the graph
GraphAirports ==
    UNION { UNION { {graph[a][i].origin, graph[a][i].destination} :
                      i \in 1..Len(graph[a]) } :
            a \in DOMAIN graph }

\* the recursion of explore is no deeper than the number of airports, and
\* the visited set holds every airport of the in-progress path
DepthBounded ==
    /\ Len(stack) <= Cardinality(GraphAirports)
    /\ \A i \in 1..Len(current_trip) :
          {current_trip[i].origin, current_trip[i].destination} \subseteq visited_airport

(* C18 - on every finite graph, cycles and self-loops included, a call of  *)
(* find_trips or find_trips_reverse eventually returns, and the recursion  *)
(* of explore is never deeper than the number of distinct airports.        *)
C18_Termination ==
    /\ (pc = "find_trips") ~> (pc = "done")
    /\ []DepthBounded

\* the flights of the graph
GraphFlights == UNION {Range(graph[a]) : a \in DOMAIN graph}

(* C19 - every record FlightRowValidator accepts becomes a Flight without  *)
(* an error when the graph is built, and the base price and the per-bag    *)
(* price of the Flight are the validated values, a per-bag price with a    *)
(* fractional part included.                                               *)
C19_ValidatedRowsConstruct ==
    /\ raised # "ValueError"
    /\ \A j \in 1..line_num :
          validate_row(csv_file[j]) /\ filter_row(row_filters, csv_file[j]) =>
              \E f \in GraphFlights :
                  /\ f.flight_no = csv_file[j].flight_no
                  /\ f.base_price = py_float(csv_file[j].base_price)
                  /\ f.bag_price * 10 = py_float(csv_file[j].bag_price)

====
